---- MODULE Spec2Model ----
(***************************************************************************)
(* Model of utils/net.go: the proxy-configurable client factory            *)
(* (newClient), the single-shot request helpers (Http, HttpRaw) and the    *)
(* stream consumer (EventSource).                                          *)
(*                                                                         *)
(* One call runs at a time; every statement of a call that can be observed *)
(* from outside (a log line, a request, a body read, a callback, a close,  *)
(* a return) is one step.  Text is a sequence of one-character strings.    *)
(***************************************************************************)
EXTENDS Integers, Sequences, FiniteSets, TLC

\* ---------------------------------------------------------------- bounds
\* Longest chunk one Read returns (stands in for the 20480-byte buffer).
MaxChunkLen == 2
\* Number of error-free Reads a response body serves before it must end.
MaxReads == 2
\* Number of calls running concurrently with the one followed line by line.
NumPeers == 1

\* ------------------------------------------------------------- text model
NL == "\n"
SP == " "
Chars == {"a", NL, SP}
\* unicode.IsSpace as strings.TrimSpace uses it
Space == {SP, NL}

SeqsUpTo(S, n) == UNION {[1..k -> S] : k \in 0..n}

\* The bodies of the spec's own examples: "a\nb\n\nc", "ab", "c\n".
ExampleChunks ==
    { <<"a", NL, "b", NL, NL, "c">>, <<"a", "b">>, <<"c", NL>> }

Chunks == SeqsUpTo(Chars, MaxChunkLen) \cup ExampleChunks
\* the one chunk of a response body that ends at once
EndingChunks == {<<"a">>}
ShortChunks == { <<>>, <<"a">>, <<"a", NL, "a">> }

Min(S) == CHOOSE x \in S : \A y \in S : x <= y
Max(S) == CHOOSE x \in S : \A y \in S : x >= y

\* strings.Split(data, "\n"): always at least one piece, empty pieces kept.
RECURSIVE Split(_)
Split(s) ==
    IF \A i \in 1..Len(s) : s[i] # NL
    THEN <<s>>
    ELSE LET i == Min({k \in 1..Len(s) : s[k] = NL})
         IN  <<SubSeq(s, 1, i - 1)>> \o Split(SubSeq(s, i + 1, Len(s)))

\* strings.TrimSpace(item)
RECURSIVE TrimLeft(_)
TrimLeft(s) ==
    IF s # <<>> /\ Head(s) \in Space THEN TrimLeft(Tail(s)) ELSE s

RECURSIVE TrimRight(_)
TrimRight(s) ==
    IF s # <<>> /\ s[Len(s)] \in Space
    THEN TrimRight(SubSeq(s, 1, Len(s) - 1))
    ELSE s

TrimSpace(s) == TrimRight(TrimLeft(s))

\* ------------------------------------------------------------ error values
Nil == [kind |-> "nil"]
NoReturn == [kind |-> "none"]
RequestError == [kind |-> "error", what |-> "http.NewRequest"]
TransportError == [kind |-> "error", what |-> "client.Do"]
DecodeError == [kind |-> "error", what |-> "json.Decode"]
ReadErrs ==
    { [kind |-> "error", what |-> "unexpected EOF"],
      [kind |-> "error", what |-> "connection reset"] }
CallbackErrs == { [kind |-> "error", what |-> "callback"] }
\* fmt.Errorf("request failed with status: %s ...", res.Status[, data])
StatusError(status, withJson) ==
    [kind |-> "error", what |-> "request failed with status",
     status |-> status, json |-> withJson]

\* io.EOF, and the nil error of a Read
EOF == [kind |-> "error", what |-> "EOF"]
NoErr == Nil

Statuses == {200, 399, 400, 500}

\* ---------------------------------------------------------- proxy settings
\* globals.ProxyConfig{ProxyType, Proxy} and the proxy kinds of package globals
NoneProxyType == "none"
HttpProxyType == "http"
HttpsProxyType == "https"
Socks5ProxyType == "socks5"
\* a ProxyType value that is none of the four named kinds
OtherProxyType == "other"
ProxyTypes ==
    {NoneProxyType, HttpProxyType, HttpsProxyType, Socks5ProxyType, OtherProxyType}

GoodAddr == "http://proxy:8080"
BadAddr == "%zz"
Addrs == {GoodAddr, BadAddr}
\* url.Parse(config.Proxy) returns an error
UrlParseFails(addr) == addr = BadAddr

ProxyConfigs == [ProxyType : ProxyTypes, Proxy : Addrs]
\* the variadic config argument: none, one, or more than one ProxyConfig
Configs ==
    {<<>>} \cup {<<c>> : c \in ProxyConfigs}
           \cup {<<c, d>> : c \in ProxyConfigs,
                            d \in {[ProxyType |-> HttpProxyType, Proxy |-> GoodAddr]}}
StreamConfigs ==
    { <<>>, <<[ProxyType |-> Socks5ProxyType, Proxy |-> GoodAddr]>> }

\* log lines of globals.Warn / globals.Debug
Warn(msg, arg) == [level |-> "warn", msg |-> msg, arg |-> arg]
Debug(msg, arg) == [level |-> "debug", msg |-> msg, arg |-> arg]

\* --------------------------------------------------------------- newClient
\* var maxTimeout = 30 * time.Minute (in minutes)
maxTimeout == 30

NoClient == [kind |-> "nil"]
NoProxy == "direct"
\* &http.Transport{Proxy: proxy, DialContext: dial, TLSClientConfig: ...}
Transport(proxy, dial, insecure) ==
    [Proxy |-> proxy, DialContext |-> dial, InsecureSkipVerify |-> insecure]
\* &http.Client{Timeout: timeout, Transport: transport}
Client(timeout, transport) ==
    [kind |-> "client", Timeout |-> timeout, Transport |-> transport]

ParseWarning == "failed to parse proxy url"
SocksWarning == "failed to create socks5 proxy"
ConfiguredTrace == "[proxy] configured proxy"

\* what newClient hands back: the client, and the lines it logged
Result(cl, lines) == [client |-> cl, logs |-> lines]

\* the parse failure handled by giving the caller no client
ParseFailed_NoClient(client, config) ==
    Result(NoClient, <<Warn(ParseWarning, config.Proxy)>>)

\* lines 41-44: url.Parse failed
ParseFailed(client, config) ==
    Result(client, <<Warn(ParseWarning, config.Proxy)>>)

\* lines 51-54: proxy.SOCKS5 failed
DialerFailed(client, config) ==
    Result(client, <<Warn(SocksWarning, config.Proxy)>>)

\* lines 45-48: the transport of the HTTP(S) proxy branch
HttpProxyTransport(config) == Transport(config.Proxy, NoProxy, TRUE)

\* the SOCKS5 transport built without its TLSClientConfig
Socks5Transport_Verifying(config) == Transport(NoProxy, config.Proxy, FALSE)

\* lines 56-63: the transport of the SOCKS5 branch
Socks5Transport(config) == Transport(NoProxy, config.Proxy, TRUE)

\* a client with no Transport of its own sends through http.DefaultTransport
NilTransport == [kind |-> "nil"]

\* the first client built without a Transport
DirectTransport_Default == NilTransport

\* lines 25-27: the transport of the client newClient starts from
DirectTransport == Transport(NoProxy, NoProxy, TRUE)

\* newClient(c) with the outcome of proxy.SOCKS5 given as socks5Err
newClient(c, socks5Err) ==
    LET client == Client(maxTimeout, DirectTransport)
    IN
    IF Len(c) = 0 THEN Result(client, <<>>)
    ELSE
    LET config == c[1]
        configured == <<Debug(ConfiguredTrace, config.Proxy)>>
    IN
    IF config.ProxyType = NoneProxyType THEN Result(client, <<>>)
    ELSE IF config.ProxyType \in {HttpProxyType, HttpsProxyType}
    THEN IF UrlParseFails(config.Proxy)
         THEN ParseFailed(client, config)
         ELSE Result([client EXCEPT !.Transport = HttpProxyTransport(config)],
                     configured)
    ELSE IF config.ProxyType = Socks5ProxyType
    THEN IF socks5Err
         THEN DialerFailed(client, config)
         ELSE Result([client EXCEPT !.Transport = Socks5Transport(config)],
                     configured)
    ELSE Result(client, configured)

\* ------------------------------------------------------------ request body
\* the body value a caller passes: nil, a JSON-encodable value, or a value
\* json.Marshal rejects (a channel, a func, a cyclic structure)
Bodies == {"nil", "value", "unencodable"}
StreamBodies == {"value"}
NoBody == "no body"
\* json.Marshal(body): the encoding, or "error"
Marshal(body) ==
    IF body = "unencodable" THEN "error"
    ELSE IF body = "nil" THEN "null"
    ELSE "{json}"
\* the reader built whatever json.Marshal returned
ConvertBody_IgnoresErr(body) == Marshal(body)

\* ConvertBody(body): a reader over the encoding, or the nil reader
ConvertBody(body) ==
    IF Marshal(body) # "error" THEN Marshal(body) ELSE NoBody

\* ------------------------------------------------------------------ state
VARIABLES
    DefaultTransport,   \* http.DefaultTransport: is it a *http.Transport, and
                        \* its TLSClientConfig.InsecureSkipVerify
    op,                 \* the exported function running: Get, GetRaw, Post,
                        \* PostRaw, EventSource ("none" before the first call)
    pc,                 \* the line of net.go the call is at
    config, body,       \* the call's arguments
    client,             \* the *http.Client newClient returned
    dialerErr,          \* newClient's proxy.SOCKS5 call returned an error
    req,                \* the request built by http.NewRequest
    res,                \* the response client.Do returned
    deferred,           \* the call's deferred functions, innermost first
    closed,             \* number of res.Body.Close() calls
    reads,              \* number of Read calls on res.Body (ReadAll and
                        \* Decode count as one)
    lastRead,           \* what the latest res.Body.Read returned: data, err
    items,              \* pieces of the current chunk not yet looked at
    delivered,          \* the callback's arguments so far, in call order
    cbResult,           \* what the latest callback invocation did
    received,           \* the non-empty trimmed lines of every chunk a Read
                        \* has returned so far, chunk by chunk, in read order
    panicked,           \* the value of the call's panic, "none" without one
    ret,                \* the error the call returned
    logs,               \* lines the call sent to globals.Warn / globals.Debug
    writes,             \* stores the call has made to http.DefaultTransport
    peers               \* the calls running concurrently with this one: for
                        \* each its function, its line and its stores to
                        \* http.DefaultTransport

vars ==
    <<DefaultTransport, op, pc, config, body, client, dialerErr, req, res, deferred,
      closed, reads, lastRead, items, delivered, cbResult, received,
      panicked, ret, logs, writes, peers>>

args == <<op, config, body>>
shared == <<writes, peers>>
stream == <<reads, lastRead, items, delivered, cbResult, received>>
exit == <<ret, closed, deferred, panicked>>

NoReq == [kind |-> "nil"]
NoRes == [kind |-> "nil"]
NoRead == [data |-> <<>>, err |-> NoReturn]
NotCalled == [kind |-> "none"]
CbPanic == [kind |-> "panic"]

\* The non-empty trimmed lines of one chunk, as the specification words
\* them: the maximal newline-free stretches of the chunk from position i on,
\* each cut down to what lies between its first and last non-space character.
RECURSIVE LinesFrom(_, _)
LinesFrom(s, i) ==
    IF i > Len(s) + 1 THEN <<>>
    ELSE LET j == Min({k \in i..(Len(s) + 1) : k = Len(s) + 1 \/ s[k] = NL})
             ink == {k \in i..(j - 1) : s[k] \notin Space}
         IN  (IF ink = {} THEN <<>> ELSE <<SubSeq(s, Min(ink), Max(ink))>>)
                 \o LinesFrom(s, j + 1)
ChunkLines(s) == LinesFrom(s, 1)

\* a concurrent call: op and pc as for the call followed line by line, with
\* "local" for every line that touches the call's own frame only
Peers == 1..NumPeers
IdlePeer == [op |-> "none", pc |-> "idle", writes |-> 0]

Init ==
    /\ DefaultTransport \in
         [isTransport : BOOLEAN, InsecureSkipVerify : {FALSE}]
    /\ op = "none" /\ pc = "idle"
    /\ config = <<>> /\ body = "nil"
    /\ client = NoClient /\ dialerErr = FALSE /\ req = NoReq /\ res = NoRes
    /\ deferred = <<>> /\ closed = 0
    /\ reads = 0 /\ lastRead = NoRead /\ items = <<>>
    /\ delivered = <<>> /\ cbResult = NotCalled /\ received = <<>>
    /\ panicked = "none" /\ ret = NoReturn /\ logs = <<>>
    /\ writes = 0 /\ peers = [p \in Peers |-> IdlePeer]

\* ------------------------------------------------------- leaving a call
Deferred(f) == \E i \in DOMAIN deferred : deferred[i] = f
\* the deferred res.Body.Close() (lines 89, 110, 175), run on the way out
RunClose == IF Deferred("close") THEN closed + 1 ELSE closed

\* `return v`: the deferred functions run, recover() finds nothing
Return(v) ==
    /\ pc' = "done" /\ ret' = v
    /\ closed' = RunClose /\ deferred' = <<>>
    /\ UNCHANGED <<panicked, logs>>

\* a panic with the given value: the deferred functions run; the recovery
\* function of EventSource (lines 153-158) logs it and the call returns the
\* zero error; without it the panic leaves the call
Panic(value) ==
    /\ panicked' = value
    /\ closed' = RunClose /\ deferred' = <<>>
    /\ IF Deferred("recover")
       THEN /\ pc' = "done" /\ ret' = Nil
            /\ logs' = Append(logs, Warn("event source panic", value))
       ELSE /\ pc' = "crashed" /\ ret' = NoReturn
            /\ logs' = logs

\* ------------------------------------------------------------- the calls
Ops == {"Get", "GetRaw", "Post", "PostRaw", "EventSource"}
HttpOps == {"Get", "Post"}
HttpRawOps == {"GetRaw", "PostRaw"}

\* EventSource without its deferred recovery function
Entry_NoRecovery(o) ==
    IF o = "EventSource" THEN [pc |-> "es160", deferred |-> <<>>]
    ELSE IF o \in {"Get", "Post"} THEN [pc |-> "h77", deferred |-> <<>>]
    ELSE [pc |-> "r98", deferred |-> <<>>]

\* where a call starts, and what it has deferred on entry (line 153)
Entry(o) ==
    IF o = "EventSource" THEN [pc |-> "es160", deferred |-> <<"recover">>]
    ELSE IF o \in HttpOps THEN [pc |-> "h77", deferred |-> <<>>]
    ELSE [pc |-> "r98", deferred |-> <<>>]

\* the state of a call's frame before it has run a statement
Fresh ==
    /\ client' = NoClient /\ dialerErr' = FALSE /\ req' = NoReq /\ res' = NoRes
    /\ closed' = 0 /\ reads' = 0 /\ lastRead' = NoRead /\ items' = <<>>
    /\ delivered' = <<>> /\ cbResult' = NotCalled /\ received' = <<>>
    /\ panicked' = "none" /\ ret' = NoReturn /\ logs' = <<>>
    /\ writes' = 0

\* A caller invokes one of the exported functions.
Call(Cs, Bs) ==
    /\ pc = "idle"
    /\ \E o \in Ops, c \in Cs, b \in Bs :
        /\ op' = o /\ config' = c
        /\ body' = IF o \in {"Get", "GetRaw"} THEN "nil" ELSE b
        /\ pc' = Entry(o).pc /\ deferred' = Entry(o).deferred
    /\ Fresh
    /\ UNCHANGED <<DefaultTransport, peers>>

\* The caller has the call's result; the call's frame is gone and the next
\* call can start.  Only http.DefaultTransport outlives the call.
CallEnds ==
    /\ pc = "done"
    /\ pc' = "idle" /\ op' = "none" /\ config' = <<>> /\ body' = "nil"
    /\ deferred' = <<>>
    /\ Fresh
    /\ UNCHANGED <<DefaultTransport, peers>>

\* ------------------------------------------------- steps the calls share
\* newClient(c) reaches proxy.SOCKS5 (line 50)
CallsSocks5(c) == Len(c) > 0 /\ c[1].ProxyType = Socks5ProxyType

\* client := newClient(config)
NewClientStep(next) ==
    \E socks5Err \in BOOLEAN :
        LET r == newClient(config, socks5Err)
        IN  /\ client' = r.client
            /\ dialerErr' = (socks5Err /\ CallsSocks5(config))
            /\ logs' = logs \o r.logs
            /\ pc' = next
            /\ UNCHANGED <<DefaultTransport, shared, args, req, res, stream, exit>>

\* req, err := http.NewRequest(method, uri, reader); if err != nil { return err }
\* fillHeaders(req, headers)
NewRequestStep(reader, err, next) ==
    /\ IF err
       THEN Return(RequestError) /\ req' = req
       ELSE /\ req' = [kind |-> "request", body |-> reader]
            /\ pc' = next
            /\ UNCHANGED <<exit, logs>>
    /\ UNCHANGED <<DefaultTransport, shared, args, client, dialerErr, res, stream>>

\* client.Do(req) is entered: the request goes out through the client's
\* transport and the call waits for the response
SendStep(next) ==
    /\ pc' = next
    /\ UNCHANGED <<DefaultTransport, shared, args, client, dialerErr, req, res, stream,
                   exit, logs>>

\* client.Do's error dropped: the call ends with no error
DoFailed_DropsError == Return(Nil)

\* `defer res.Body.Close()` written before the error test: res is nil
DoFailed_ClosesNilBody == Panic("nil pointer dereference")

\* if err != nil { return err } after client.Do
DoFailed == Return(TransportError)

\* the response body left for nobody to close
DeferClose_Missing == deferred

\* defer res.Body.Close()
DeferClose == <<"close">> \o deferred

\* res, err := client.Do(req); if err != nil { return err }
\* defer res.Body.Close()
DoStep(err, status, next) ==
    /\ IF err
       THEN DoFailed /\ res' = res
       ELSE /\ res' = [kind |-> "response", status |-> status]
            /\ deferred' = DeferClose
            /\ pc' = next
            /\ UNCHANGED <<ret, closed, panicked, logs>>
    /\ UNCHANGED <<DefaultTransport, shared, args, client, dialerErr, req, stream>>

\* ------------------------------------------------------------------- Http
H_NewRequest ==
    /\ pc = "h77"
    /\ \E err \in BOOLEAN :
         NewRequestStep(IF op = "Post" THEN ConvertBody(body) ELSE NoBody,
                        err, "h83")

H_NewClient == pc = "h83" /\ NewClientStep("h84")

H_Send == pc = "h84" /\ SendStep("h84io")

H_Do ==
    /\ pc = "h84io"
    /\ \E err \in BOOLEAN, status \in Statuses : DoStep(err, status, "h91")

\* json.NewDecoder(resp.Body).Decode(ptr)
H_Decode ==
    /\ pc = "h91"
    /\ reads' = reads + 1
    /\ \E v \in {Nil, DecodeError} : Return(v)
    /\ UNCHANGED <<DefaultTransport, shared, args, client, dialerErr, req, res, lastRead, items,
                   delivered, cbResult, received>>

\* ---------------------------------------------------------------- HttpRaw
R_NewRequest ==
    /\ pc = "r98"
    /\ \E err \in BOOLEAN :
         NewRequestStep(IF op = "PostRaw" THEN ConvertBody(body) ELSE NoBody,
                        err, "r104")

R_NewClient == pc = "r104" /\ NewClientStep("r105")

R_Send == pc = "r105" /\ SendStep("r105io")

R_Do ==
    /\ pc = "r105io"
    /\ \E err \in BOOLEAN, status \in Statuses : DoStep(err, status, "r112")

\* data, err = io.ReadAll(resp.Body)
R_ReadAll ==
    /\ pc = "r112"
    /\ reads' = reads + 1
    /\ \E v \in {Nil} \cup ReadErrs : Return(v)
    /\ UNCHANGED <<DefaultTransport, shared, args, client, dialerErr, req, res, lastRead, items,
                   delivered, cbResult, received>>

\* ------------------------------------------------------------ EventSource
\* the InsecureSkipVerify of the tls.Config line 160 stores, left verifying
StoredTLS_Verifying == FALSE

\* the InsecureSkipVerify of &tls.Config{InsecureSkipVerify: true}
StoredTLS == TRUE

\* Line 160 stores one pointer with no lock held.  A store that races with
\* the same store of other calls leaves one of the values stored: its own or
\* that of a concurrent call at the same line.
RacingStores ==
    {StoredTLS} \cup {StoredTLS : p \in {q \in Peers : peers[q].pc = "es160"}}

\* the functions a concurrent call runs
PeerOps == {"Get", "GetRaw", "EventSource"}

\* the frame of the call followed line by line
frame ==
    <<op, pc, config, body, client, dialerErr, req, res, deferred, closed,
      reads, lastRead, items, delivered, cbResult, received, panicked, ret,
      logs>>
\* http.DefaultTransport.(*http.Transport).TLSClientConfig =
\*     &tls.Config{InsecureSkipVerify: true}
ES_SetDefaultTLS ==
    /\ pc = "es160"
    /\ IF DefaultTransport.isTransport
       THEN /\ \E v \in RacingStores :
                 DefaultTransport' =
                     [DefaultTransport EXCEPT !.InsecureSkipVerify = v]
            /\ writes' = writes + 1
            /\ pc' = "es162"
            /\ UNCHANGED <<exit, logs>>
       ELSE /\ Panic("interface conversion")
            /\ UNCHANGED <<DefaultTransport, writes>>
    /\ UNCHANGED <<peers, args, client, dialerErr, req, res, stream>>

\* A concurrent call starts.
P_Call(p) ==
    /\ peers[p].pc = "idle"
    /\ \E o \in PeerOps :
        peers' = [peers EXCEPT ![p] = [op |-> o, pc |-> Entry(o).pc, writes |-> 0]]
    /\ UNCHANGED <<DefaultTransport, writes, frame>>

\* line 160 in a concurrent EventSource; when it panics the recovery
\* function ends the call
P_SetDefaultTLS(p) ==
    /\ peers[p].pc = "es160"
    /\ IF DefaultTransport.isTransport
       THEN /\ \E v \in RacingStores :
                 DefaultTransport' =
                     [DefaultTransport EXCEPT !.InsecureSkipVerify = v]
            /\ peers' = [peers EXCEPT ![p].writes = @ + 1, ![p].pc = "local"]
       ELSE /\ peers' = [peers EXCEPT ![p].pc = "done"]
            /\ UNCHANGED DefaultTransport
    /\ UNCHANGED <<writes, frame>>

\* every other line of a concurrent call: newClient, http.NewRequest,
\* client.Do, the reads and the callback work on the call's own client,
\* request and response
P_Local(p) ==
    /\ peers[p].pc \in {"h77", "r98", "local"}
    /\ peers' = [peers EXCEPT ![p].pc = "done"]
    /\ UNCHANGED <<DefaultTransport, writes, frame>>

\* A concurrent call's caller has its result.
P_CallEnds(p) ==
    /\ peers[p].pc = "done"
    /\ peers' = [peers EXCEPT ![p] = IdlePeer]
    /\ UNCHANGED <<DefaultTransport, writes, frame>>

ES_NewClient == pc = "es162" /\ NewClientStep("es163")

ES_NewRequest ==
    /\ pc = "es163"
    /\ \E err \in BOOLEAN : NewRequestStep(ConvertBody(body), err, "es170")

ES_Send == pc = "es170" /\ SendStep("es170io")

ES_Do ==
    /\ pc = "es170io"
    /\ \E err \in BOOLEAN, status \in Statuses : DoStep(err, status, "es177")

\* the status test written `> 400`
Rejected_Above400(status) == status > 400

\* res.StatusCode >= 400
Rejected(status) == status >= 400

\* if res.StatusCode >= 400 { ... return fmt.Errorf(...) }, with the outcomes
\* of io.ReadAll (readOk) and of Unmarshal (parseable)
StatusCheck(status, readOk, parseable) ==
    IF Rejected(status)
    THEN /\ reads' = reads + 1
         /\ Return(StatusError(status, readOk /\ parseable))
    ELSE /\ pc' = "es190"
         /\ UNCHANGED <<reads, exit, logs>>

ES_Status ==
    /\ pc = "es177"
    /\ \E readOk \in BOOLEAN, parseable \in BOOLEAN :
         StatusCheck(res.status, readOk, parseable)
    /\ UNCHANGED <<DefaultTransport, shared, args, client, dialerErr, req, res, lastRead, items,
                   delivered, cbResult, received>>

\* the end of the body returned as the error io.EOF
OnEOF_ReturnsEOF == Return(EOF)

\* if err == io.EOF { return nil }
OnEOF == Return(Nil)

\* a failed Read ending the call with no error
OnReadError_Swallowed(err) == Return(Nil)

\* else if err != nil { return err }
OnReadError(err) == Return(err)

\* n, err := res.Body.Read(buf) has returned data = buf[:n] and err:
\* lines 192-199
AfterRead(data, err) ==
    IF err = EOF THEN OnEOF /\ items' = items
    ELSE IF err # NoErr THEN OnReadError(err) /\ items' = items
    ELSE /\ items' = Split(data)
         /\ pc' = "es199"
         /\ UNCHANGED <<exit, logs>>

ES_Read(Ch) ==
    /\ pc = "es190"
    /\ \E data \in Ch, err \in {NoErr, EOF} \cup ReadErrs :
        /\ err = NoErr => reads < MaxReads
        /\ reads' = reads + 1
        /\ lastRead' = [data |-> data, err |-> err]
        /\ received' = received \o ChunkLines(data)
        /\ AfterRead(data, err)
    /\ UNCHANGED <<DefaultTransport, shared, args, client, dialerErr, req, res, delivered, cbResult>>

\* a `return nil` at the end of the loop body: the call ends with the chunk
NextItem_ReturnsAfterChunk ==
    /\ items' = Tail(items)
    /\ IF Tail(items) = <<>> THEN Return(Nil)
       ELSE pc' = "es199" /\ UNCHANGED <<exit, logs>>

\* the loop goes on to the next item, or back to the next Read
NextItem ==
    /\ items' = Tail(items)
    /\ pc' = IF Tail(items) = <<>> THEN "es190" ELSE "es199"
    /\ UNCHANGED <<exit, logs>>

\* the loop going on after the callback returned an error
OnCallbackError_Ignored(err) == NextItem

\* if err := callback(segment); err != nil { return err }
OnCallbackError(err) == Return(err) /\ items' = items

\* callback(segment) has been called and did `outcome`: lines 202-204
AfterCallback(segment, outcome) ==
    /\ delivered' = Append(delivered, segment)
    /\ cbResult' = outcome
    /\ IF outcome = CbPanic THEN Panic("callback panic") /\ items' = items
       ELSE IF outcome # Nil THEN OnCallbackError(outcome)
       ELSE NextItem

\* one turn of `for _, item := range strings.Split(data, "\n")`
ES_Item ==
    /\ pc = "es199"
    /\ LET segment == TrimSpace(Head(items))
       IN  IF Len(segment) > 0
           THEN \E outcome \in {Nil, CbPanic} \cup CallbackErrs :
                    AfterCallback(segment, outcome)
           ELSE NextItem /\ UNCHANGED <<delivered, cbResult>>
    /\ UNCHANGED <<DefaultTransport, shared, args, client, dialerErr, req, res, reads, lastRead,
                   received>>

\* ------------------------------------------------------- specifications
Steps ==
    \/ H_NewRequest \/ H_NewClient \/ H_Send \/ H_Do \/ H_Decode
    \/ R_NewRequest \/ R_NewClient \/ R_Send \/ R_Do \/ R_ReadAll
    \/ ES_SetDefaultTLS \/ ES_NewClient \/ ES_NewRequest \/ ES_Send \/ ES_Do
    \/ ES_Status \/ ES_Item

\* the stream consumer on every chunk, behind a few proxy settings
Next == Call(StreamConfigs, StreamBodies) \/ ES_Read(Chunks) \/ Steps \/ CallEnds
Spec == Init /\ [][Next]_vars

\* every proxy setting and request body, on short response bodies
NextClient == Call(Configs, Bodies) \/ ES_Read(ShortChunks) \/ Steps \/ CallEnds
SpecClient == Init /\ [][NextClient]_vars

\* calls racing one another
PeerSteps ==
    \E p \in Peers : P_Call(p) \/ P_SetDefaultTLS(p) \/ P_Local(p) \/ P_CallEnds(p)
NextConc ==
    \/ Call(StreamConfigs, StreamBodies) \/ ES_Read(EndingChunks)
    \/ Steps \/ CallEnds \/ PeerSteps
SpecConc == Init /\ [][NextConc]_vars

\* ------------------------------------------------------------ properties
Streaming == op = "EventSource" /\ res.kind = "response" /\ res.status < 400
IsPrefix(s, t) == Len(s) <= Len(t) /\ SubSeq(t, 1, Len(s)) = s
Direct(cl) ==
    cl.Transport.Proxy = NoProxy /\ cl.Transport.DialContext = NoProxy
Logged(level, msg) ==
    \E i \in DOMAIN logs : logs[i].level = level /\ logs[i].msg = msg
\* the call is past its newClient(config)
ClientBuilt ==
    pc \in {"h84", "h84io", "h91", "r105", "r105io", "r112",
            "es163", "es170", "es170io", "es177", "es190", "es199"}

\* C1: on a response with status < 400 the callback receives, in read order,
\* the non-empty trimmed lines of each chunk the body's reads returned, each
\* chunk split on its own: always a prefix of them, and all of them once the
\* call has returned without a failure or panic of the callback.
C1_SegmentsAreChunkLines ==
    Streaming =>
        /\ IsPrefix(delivered, received)
        /\ (pc = "done" /\ cbResult \in {NotCalled, Nil}) => delivered = received

\* What the loop does deliver: the lines of every chunk whose Read returned
\* no error; the bytes a Read returns together with io.EOF or with an error
\* are the only ones that never reach the callback.
SegmentsOfCleanReads ==
    (Streaming /\ pc = "done" /\ cbResult \in {NotCalled, Nil}) =>
        received = delivered \o ChunkLines(lastRead.data)

\* C2: with a response status >= 400 the callback is never invoked and the
\* call returns a non-nil error, whatever reading and parsing the body gave.
C2_RejectedStatusNeverCallsBack ==
    (op = "EventSource" /\ res.kind = "response" /\ res.status >= 400) =>
        /\ delivered = <<>> /\ cbResult = NotCalled
        /\ pc \in {"es177", "done"}
        /\ pc = "done" => ret.kind = "error"

C2_Witness ==
    /\ op = "EventSource" /\ pc = "done"
    /\ res.kind = "response" /\ res.status = 400
    /\ ret = StatusError(400, TRUE) /\ delivered = <<>>

\* a step taken after the callback has returned an error: none but the
\* caller taking the result
AfterCallbackError ==
    cbResult \in CallbackErrs =>
        \/ delivered' = delivered /\ reads' = reads /\ ret' = ret
        \/ pc' = "idle"

\* C3: once the callback has returned an error the call has returned exactly
\* that error, and from then on the callback is not invoked and the body is
\* not read again, whatever is left of the chunk.
C3_CallbackErrorStopsStream ==
    /\ [](cbResult \in CallbackErrs => (pc = "done" /\ ret = cbResult))
    /\ [][AfterCallbackError]_vars

\* the callback fails on the second segment with a third one still buffered
C3_Witness ==
    /\ cbResult \in CallbackErrs /\ Len(delivered) = 2
    /\ \E i \in 2..Len(items) : TrimSpace(items[i]) # <<>>

\* C4: a panic inside EventSource never leaves the call: it is recovered, a
\* warning carrying it is logged, the call has returned nil, and the latest
\* callback invocation, if any, is the one that panicked.
C4_PanicIsSwallowed ==
    /\ pc # "crashed"
    /\ panicked # "none" =>
         /\ pc = "done" /\ ret = Nil
         /\ \E i \in DOMAIN logs :
              logs[i] = Warn("event source panic", panicked)
         /\ IF panicked = "callback panic"
            THEN cbResult = CbPanic
            ELSE delivered = <<>> /\ cbResult = NotCalled

\* the callback panics on the second segment
C4_Witness ==
    /\ panicked = "callback panic" /\ cbResult = CbPanic
    /\ Len(delivered) = 2 /\ ret = Nil

\* C5: newClient always returns a client; the client is direct when no config
\* is given, when the kind is None or unrecognized, when the HTTP(S) address
\* does not parse and when the SOCKS5 dialer cannot be built, and in the last
\* two cases a warning is logged.
C5_NewClientDegrades ==
    ClientBuilt =>
        /\ client.kind = "client"
        /\ Len(config) = 0 => Direct(client)
        /\ Len(config) > 0 =>
            LET c == config[1] IN
            /\ c.ProxyType \notin
                 {HttpProxyType, HttpsProxyType, Socks5ProxyType}
                    => Direct(client)
            /\ (c.ProxyType \in {HttpProxyType, HttpsProxyType}
                  /\ UrlParseFails(c.Proxy))
                    => Direct(client) /\ Logged("warn", ParseWarning)
            /\ dialerErr => Direct(client) /\ Logged("warn", SocksWarning)

\* an HTTP proxy whose address does not parse
C5_Witness ==
    /\ ClientBuilt /\ Len(config) = 1
    /\ config[1] = [ProxyType |-> HttpProxyType, Proxy |-> BadAddr]
    /\ Direct(client) /\ Logged("warn", ParseWarning)

\* C6: on a status < 400, when a Read reports io.EOF the call returns nil,
\* however many segments were delivered before.
C6_CleanEndReturnsNil ==
    (Streaming /\ lastRead.err = EOF) => pc = "done" /\ ret = Nil

\* the body ends after a blank chunk: no segment at all
C6_Witness ==
    /\ Streaming /\ lastRead.err = EOF /\ reads = 2
    /\ delivered = <<>> /\ ret = Nil

\* C7: when a Read fails with an error other than io.EOF the call has
\* returned that error, and the callback has received the lines of the
\* earlier reads only.
C7_ReadErrorIsReturned ==
    (Streaming /\ lastRead.err \in ReadErrs) =>
        /\ pc = "done" /\ ret = lastRead.err
        /\ cbResult \in {NotCalled, Nil}
        /\ received = delivered \o ChunkLines(lastRead.data)

C7_Witness ==
    /\ Streaming /\ lastRead.err \in ReadErrs /\ reads = 2
    /\ Len(delivered) = 3 /\ ret = lastRead.err

\* C8: in Http, HttpRaw and EventSource the response body is closed exactly
\* when the call got a response, once, and by the time the call returns.
C8_BodyClosedOnEveryExit ==
    /\ closed \in {0, 1}
    /\ closed = 1 => res.kind = "response"
    /\ pc = "done" => (closed = 1 <=> res.kind = "response")

\* EventSource leaves through its recovered panic
C8_Witness ==
    /\ op = "EventSource" /\ pc = "done" /\ panicked = "callback panic"
    /\ closed = 1

\* C9: every client newClient returns has the 30-minute timeout and a
\* transport that does not verify TLS certificates.
C9_ClientTimeoutAndInsecureTLS ==
    ClientBuilt =>
        /\ client.Timeout = 30
        /\ client.Transport.InsecureSkipVerify = TRUE

\* a client wired to a SOCKS5 dialer
C9_Witness ==
    /\ ClientBuilt
    /\ client.Transport.DialContext = GoodAddr
    /\ client.Transport.InsecureSkipVerify = TRUE

\* C10: when client.Do returns an error EventSource has returned that error
\* with no callback invoked and no read of a body.
C10_TransportErrorIsImmediate ==
    (op = "EventSource" /\ pc = "done" /\ panicked = "none"
        /\ req.kind = "request" /\ res.kind = "nil") =>
        /\ ret = TransportError
        /\ delivered = <<>> /\ cbResult = NotCalled /\ reads = 0

C10_Witness ==
    /\ op = "EventSource" /\ pc = "done"
    /\ req.kind = "request" /\ res.kind = "nil"
    /\ ret = TransportError /\ reads = 0

\* C11: no byte of a status < 400 body is lost: when the call has returned
\* without a failure or panic of the callback, the lines of the last chunk a
\* Read returned (with or without io.EOF or an error) are the last segments
\* the callback received, and the callback has received as many segments as
\* the reads returned lines.
C11_NoByteLost ==
    (Streaming /\ pc = "done" /\ reads > 0 /\ cbResult \in {NotCalled, Nil}) =>
        LET last == ChunkLines(lastRead.data)
            n == Len(delivered)
        IN  /\ n = Len(received)
            /\ n >= Len(last)
            /\ SubSeq(delivered, n - Len(last) + 1, n) = last

\* The stream consumer's state, in the specification's words.  A call that
\* has returned is in the terminal state its result names.
Terminal ==
    IF ret = Nil THEN (IF panicked = "none" THEN "Done" ELSE "Recovered")
    ELSE IF ret = RequestError THEN "Failed(Request)"
    ELSE IF ret = TransportError THEN "Failed(Transport)"
    ELSE IF ret \in ReadErrs THEN "Failed(Read)"
    ELSE IF ret \in CallbackErrs THEN "Failed(Callback)"
    ELSE IF ret.kind = "error" /\ ret.what = "request failed with status"
    THEN "StatusRejected"
    ELSE "Unknown"

Phase ==
    IF op # "EventSource" THEN "Idle"
    ELSE IF pc \in {"es160", "es162", "es163", "es170"} THEN "Init"
    ELSE IF pc \in {"es170io", "es177"} THEN "RequestSent"
    ELSE IF pc \in {"es190", "es199"} THEN "Streaming"
    ELSE IF pc = "done" THEN Terminal
    ELSE "Unknown"

\* the state before and after a step
PhaseMove == <<Phase, Phase'>>

TerminalPhases ==
    {"Failed(Transport)", "Failed(Read)", "Failed(Callback)",
     "StatusRejected", "Done"}

\* the moves of the specification's state machine, with the call's start and
\* the caller taking the result around it
ClaimedMoves ==
    {<<"Idle", "Idle">>, <<"Idle", "Init">>, <<"Init", "Init">>,
     <<"Init", "RequestSent">>, <<"RequestSent", "RequestSent">>,
     <<"RequestSent", "Failed(Transport)">>,
     <<"RequestSent", "StatusRejected">>, <<"RequestSent", "Streaming">>,
     <<"Streaming", "Streaming">>, <<"Streaming", "Done">>,
     <<"Streaming", "Failed(Read)">>, <<"Streaming", "Failed(Callback)">>}
        \cup {<<t, "Idle">> : t \in TerminalPhases}

\* the exits the code has besides: http.NewRequest fails before anything is
\* sent; a panic is recovered, before the request or while streaming
EarlyExits ==
    {<<"Init", "Failed(Request)">>, <<"Init", "Recovered">>,
     <<"Streaming", "Recovered">>,
     <<"Failed(Request)", "Idle">>, <<"Recovered", "Idle">>}

MoveAsStated == PhaseMove \in ClaimedMoves

MoveIsEarlyExit == PhaseMove \in EarlyExits

\* C12 as stated: every step of EventSource is a move of the specification's
\* state machine Init -> RequestSent -> {Failed(Transport), StatusRejected,
\* Streaming}, Streaming -> {Streaming, Done, Failed(Read),
\* Failed(Callback)}, every return is one of its terminal states, and nil is
\* returned in Done only.
C12_StateMachineAsStated == [][MoveAsStated]_vars

\* C12 amended: every step of EventSource is a move of that state machine or
\* one of two more exits: Init -> Failed(Request) when http.NewRequest
\* fails, and Init or Streaming -> Recovered when a panic is recovered; nil
\* is returned in Done and in Recovered only.
C12_StateMachineWithEarlyExits ==
    [][MoveAsStated \/ MoveIsEarlyExit]_vars

\* a call that returned the error of http.NewRequest with no request sent
C12_Witness ==
    /\ op = "EventSource" /\ pc = "done" /\ Phase = "Failed(Request)"
    /\ req = NoReq /\ res = NoRes

\* ---- concurrent calls and http.DefaultTransport
\* the calls in progress: the one followed line by line and its peers
Invocations ==
    {[op |-> op, pc |-> pc, writes |-> writes]} \cup {peers[p] : p \in Peers}

\* only EventSource stores, and no call stores twice
OnlyEventSourceStores ==
    \A i \in Invocations :
        /\ i.writes <= 1
        /\ i.op # "EventSource" => i.writes = 0

\* the store comes before the call's client and request exist
StoredBeforeClient ==
    (op = "EventSource" /\ (client # NoClient \/ req # NoReq)) => writes = 1

\* whoever has stored, verification is off
StoredValueIsConstant ==
    (\E i \in Invocations : i.writes > 0) => DefaultTransport.InsecureSkipVerify

\* every EventSource past line 160 has stored exactly once
StoredOnce ==
    \A i \in Invocations :
        (i.op = "EventSource" /\ i.pc # "es160") => i.writes = 1

\* ... or, where http.DefaultTransport is no *http.Transport, has panicked at
\* line 160 before storing and ended
StoredOnceOrPanicked ==
    \A i \in Invocations :
        (i.op = "EventSource" /\ i.pc # "es160") =>
            IF DefaultTransport.isTransport THEN i.writes = 1
            ELSE i.writes = 0 /\ i.pc = "done"

SomeoneStores ==
    \/ writes' = writes + 1
    \/ \E p \in Peers : peers'[p].writes = peers[p].writes + 1

\* a step changes http.DefaultTransport only by the store of line 160, never
\* turns verification back on, and a step of one call leaves the frame of
\* the others alone
SharedStateStep ==
    /\ DefaultTransport' # DefaultTransport => SomeoneStores
    /\ DefaultTransport.InsecureSkipVerify => DefaultTransport'.InsecureSkipVerify
    /\ peers' # peers => UNCHANGED <<frame, writes>>
    /\ \A p \in Peers, q \in Peers :
           (p # q /\ peers'[p] # peers[p]) => peers'[q] = peers[q]

C13_State ==
    /\ OnlyEventSourceStores /\ StoredBeforeClient /\ StoredValueIsConstant
    /\ StoredOnceOrPanicked

InFlight ==
    pc \in {"h84io", "h91", "r105io", "r112", "es170io", "es177", "es190",
            "es199"}

\* the client has a transport of its own, not http.DefaultTransport
OwnTransport == client # NoClient => client.Transport # NilTransport

\* from newClient's return to the end of the call no step, of this call or
\* of a concurrent one, changes the client; the store to
\* http.DefaultTransport leaves every client as it is
WiringStep ==
    /\ (client # NoClient /\ pc' # "idle") => client' = client
    /\ InFlight => client' = client
    /\ DefaultTransport' # DefaultTransport =>
           (client' = client \/ client = NoClient)

\* C14: a client's transport wiring is fixed once newClient returns it: no
\* step of the same call or of a concurrent call changes the transport of a
\* client whose request is in flight, and no client newClient builds sends
\* through the default transport that EventSource writes to.
C14_WiringFixed == []OwnTransport /\ [][WiringStep]_vars

\* a request in flight through a SOCKS5 client while a concurrent
\* EventSource has stored to http.DefaultTransport
C14_Witness ==
    /\ op \in HttpOps /\ pc = "h84io" /\ ~Direct(client)
    /\ DefaultTransport.InsecureSkipVerify
    /\ \E p \in Peers : peers[p].pc = "local" /\ peers[p].writes = 1

\* ---- request bodies
BodyOps == {"Post", "PostRaw", "EventSource"}

\* C15: EventSource encodes the request body only when one is present: with
\* no body (nil) the request is built without a body; with a body value the
\* request body is its JSON encoding.
C15_BodyOnlyWhenPresent ==
    (op = "EventSource" /\ req.kind = "request") =>
        /\ body = "nil" => req.body = NoBody
        /\ body = "value" => req.body = "{json}"

\* what a call logs, whatever its body
KnownLogs == {ParseWarning, SocksWarning, ConfiguredTrace, "event source panic"}

\* the results of a call that fails before a request exists
EarlyResults == {RequestError}

\* C16: when the body's JSON encoding fails, Post, PostRaw and EventSource
\* still build and send the request, with an empty body, and the call neither
\* returns nor logs the encoding failure.
C16_EncodingFailureIsSilent ==
    (op \in BodyOps /\ body = "unencodable") =>
        /\ req.kind = "request" => req.body = NoBody
        /\ (pc = "done" /\ req = NoReq) =>
               (ret \in EarlyResults \/ panicked # "none")
        /\ (pc = "done" /\ req.kind = "request" /\ res = NoRes) =>
               ret = TransportError
        /\ \A i \in DOMAIN logs : logs[i].msg \in KnownLogs

\* a PostRaw whose body does not encode, its request in flight
C16_Witness ==
    /\ op = "PostRaw" /\ body = "unencodable" /\ pc = "r105io"
    /\ req.kind = "request" /\ req.body = NoBody

\* ---- the streaming loop
InLoop == op = "EventSource" /\ pc \in {"es190", "es199"}

\* the step is a Read that reported the end of the body or an error
ReadEnded == reads' = reads + 1 /\ lastRead'.err # NoErr

\* the step is a callback invocation that returned an error or panicked
CallbackFailed == Len(delivered') = Len(delivered) + 1 /\ cbResult' # Nil

LoopStep ==
    InLoop =>
        /\ pc' = "done" <=> (ReadEnded \/ CallbackFailed)
        /\ pc' \in {"es190", "es199", "done"}
        /\ (pc = "es199" /\ lastRead.data = <<>>) =>
               pc' = "es190" /\ delivered' = delivered

\* C17: the streaming loop ends at once when a Read reports the end of the
\* body or an error, or the callback returns an error or panics; every other
\* step taken inside the loop stays in it, and a Read of zero bytes goes back
\* to the next Read with no callback invoked.
C17_LoopEndsOnlyOnReadOrCallback == [][LoopStep]_vars

\* back at the Read after a Read of zero bytes
C17_Witness ==
    /\ op = "EventSource" /\ pc = "es190" /\ reads = 1
    /\ lastRead = [data |-> <<>>, err |-> NoErr] /\ delivered = <<>>

\* ---- the trace of newClient
\* C18: newClient logs the 'configured proxy' trace exactly when the client
\* it returns routes through the proxy named in it, and never when it
\* returns a direct client.
C18_TraceIffProxied ==
    ClientBuilt => (Logged("debug", ConfiguredTrace) <=> ~Direct(client))
====
